---- MODULE Spec2Model ----
(***************************************************************************)
(* A model of merlin/study/step.py: the MerlinStepRecord life cycle        *)
(* (mark_running, mark_end, mark_restart, setup_workspace) and the status  *)
(* file MERLIN_STATUS that every transition writes.                        *)
(*                                                                         *)
(* Texts are modelled as sequences of whitespace-free words: joining with  *)
(* " " is concatenation of word sequences, appending a text that starts    *)
(* with a blank appends its words, and splitting a line on whitespace      *)
(* yields its words.  A file is the sequence of its newline-terminated     *)
(* lines.  The workspace directory is taken to exist on disk (it is made   *)
(* by the study set-up and by setup_workspace, which is idempotent), so    *)
(* Path.write_text itself does not fail.                                   *)
(***************************************************************************)
EXTENDS Integers, Sequences, FiniteSets, TLC

\* ------------------------------------------------------------------ bounds
\* Largest restart_limit an instance is constructed with.
MaxLimit == 2
\* Number of mark_restart calls explored on one instance.
MaxRestartCalls == 3
\* Last tick of the wall clock.
MaxTime == 2

\* --------------------------------------------------------------- vocabulary
\* merlin.common.abstracts.enums.ReturnCode: the seven codes mark_end names.
ReturnCodes ==
    {"OK", "DRY_OK", "RETRY", "RESTART", "SOFT_FAIL", "HARD_FAIL", "STOP_WORKERS"}

\* Values a caller may hand to mark_end that are none of the seven codes: another
\* value of the enumeration, and the mapper's own fallback key.
OtherValues == {"ERROR", "UNKNOWN"}

\* maestrowf.abstracts.enums.State, as far as the record can hold it.
TerminalStates == {"FINISHED", "FAILED", "CANCELLED", "DRYRUN", "UNKNOWN"}

States == {"INITIALIZED", "RUNNING"} \cup TerminalStates

VARIABLES
    status,          \* self.status
    num_restarts,    \* self._num_restarts
    restart_limit,   \* self.restart_limit
    start_time,      \* self._start_time (0: None)
    end_time,        \* self._end_time (0: None)
    now,             \* the wall clock datetime.now() reads
    eager,           \* app.conf.task_always_eager
    file,            \* the lines of <workspace>/MERLIN_STATUS (<<>>: no file)
    last,            \* the operation that ran last, with the record as it was before
    nRestartCalls,   \* how many times mark_restart has been called
    q,               \* a call of Step.get_task_queue_from_dict
    xp,              \* a call of needs_merlin_expansion or of the step's cloning
    ex,              \* the calls of Step.execute on one adapter configuration
    mon              \* a run of the monitor (process_monitor, check_merlin_status)

\* The record's own variables.
recVars ==
    <<status, num_restarts, restart_limit, start_time, end_time, now, eager, file,
      last, nRestartCalls>>

\* The variables of the other components.
auxVars == <<q, xp, ex, mon>>

vars == <<recVars, auxVars>>

\* A component that is not being exercised.
Idle == [pc |-> "idle"]

\* ------------------------------------------------------------------- texts
Digits == <<"0", "1", "2", "3", "4", "5", "6", "7", "8", "9">>

\* str(n) for a natural number.
RECURSIVE Str(_)
Str(n) == IF n < 10 THEN Digits[n + 1] ELSE Str(n \div 10) \o Digits[(n % 10) + 1]

\* " ".join(items): every item is a text, the line is the words of all of them.
RECURSIVE Join(_)
Join(items) == IF items = <<>> THEN <<>> ELSE Head(items) \o Join(Tail(items))

\* "/".join(segments) for a non-empty path.
RECURSIVE JoinPath(_)
JoinPath(segs) ==
    IF Len(segs) = 1 THEN segs[1] ELSE segs[1] \o "/" \o JoinPath(Tail(segs))

Min(S) == CHOOSE x \in S : \A y \in S : x <= y

Max(S) == CHOOSE x \in S : \A y \in S : x >= y

\* --------------------------------------------------------- the step's names
\* self.name: the name of the maestro step.
name == "step"

\* merlin_step.study_name
study_name == "study"

\* self.workspace.value, as its path segments.
workspace == <<"out", "study_20230101-120000", "step", "X.1">>

\* A segment the pattern rf"{study_name}_\d{8}-\d{6}/" matches: the study's name,
\* an underscore and a time stamp, followed by a separator (so never the last one).
StampMatches(i) ==
    /\ i < Len(workspace)
    /\ workspace[i] = study_name \o "_" \o "20230101-120000"

\* Step.name_no_params()
name_no_params == "step"

condensed_workspace ==
    LET hits == {i \in 1..Len(workspace) : StampMatches(i)}
        steps == {i \in 1..Len(workspace) : workspace[i] = name_no_params}
    IN  IF hits # {}
        THEN LET i == Min(hits)
                 later == {j \in hits : j > i}
                 stop == IF later = {} THEN Len(workspace) ELSE Min(later) - 1
             IN  JoinPath(SubSeq(workspace, i + 1, stop))
        ELSE JoinPath(SubSeq(workspace, Max(steps), Len(workspace)))

\* merlin.common.tasks.get_current_queue()
get_current_queue == "queue"

\* merlin.common.tasks.get_current_worker()
get_current_worker == "worker@host"

\* ------------------------------------------------- the maestro base record
\* "{:02d}".format(n) for a natural number.
Str02(n) == (IF n < 10 THEN "0" ELSE "") \o Str(n)

\* maestrowf.utils.get_duration of a difference d of two clock readings, in seconds
\* (less than a day either way): "{:d}d:{:02d}h:{:02d}m:{:02d}s", the days truncated
\* towards zero and the rest taken modulo a day.
get_duration(d) ==
    LET rest == d % 86400
    IN  "0d:" \o Str02(rest \div 3600) \o "h:" \o Str02((rest % 3600) \div 60)
             \o "m:" \o Str02((rest % 3600) % 60) \o "s"

\* _StepRecord.elapsed_time: merlin never marks a record submitted.
elapsed_time == "--:--:--"

\* _StepRecord.run_time
run_time(st, et) == IF st # 0 /\ et # 0 THEN get_duration(et - st) ELSE "--:--:--"

\* _StepRecord.mark_running: the start time is recorded once.
StepRecord_start_time(st) == IF st = 0 THEN now ELSE st

\* _StepRecord.mark_end: the end time is recorded once.
StepRecord_end_time(et) == IF et = 0 THEN now ELSE et

\* ------------------------------------------------------- mark_end's tables
\* (two faulty variants of the table first, then the table)
\* The table with RETRY filed under the failures.
state_mapper_RetryFails ==
    [k \in ReturnCodes \cup {"UNKNOWN"} |->
        CASE k = "OK"           -> [state |-> "FINISHED",  result |-> <<"MERLIN_SUCCESS">>]
          [] k = "DRY_OK"       -> [state |-> "DRYRUN",    result |-> <<"DRY_SUCCESS">>]
          [] k = "RETRY"        -> [state |-> "FAILED",    result |-> <<"MERLIN_RETRY">>]
          [] k = "RESTART"      -> [state |-> "FINISHED",  result |-> <<"MERLIN_RESTART">>]
          [] k = "SOFT_FAIL"    -> [state |-> "FAILED",    result |-> <<"MERLIN_SOFT_FAIL">>]
          [] k = "HARD_FAIL"    -> [state |-> "FAILED",    result |-> <<"MERLIN_HARD_FAIL">>]
          [] k = "STOP_WORKERS" -> [state |-> "CANCELLED", result |-> <<"MERLIN_STOP_WORKERS">>]
          [] k = "UNKNOWN"      -> [state |-> "UNKNOWN",   result |-> <<"UNRECOGNIZED_RETURN_CODE">>]]

\* The table with the fallback entry sending the record back to its first state.
state_mapper_UnknownResets ==
    [k \in ReturnCodes \cup {"UNKNOWN"} |->
        CASE k = "OK"           -> [state |-> "FINISHED",  result |-> <<"MERLIN_SUCCESS">>]
          [] k = "DRY_OK"       -> [state |-> "DRYRUN",    result |-> <<"DRY_SUCCESS">>]
          [] k = "RETRY"        -> [state |-> "FINISHED",  result |-> <<"MERLIN_RETRY">>]
          [] k = "RESTART"      -> [state |-> "FINISHED",  result |-> <<"MERLIN_RESTART">>]
          [] k = "SOFT_FAIL"    -> [state |-> "FAILED",    result |-> <<"MERLIN_SOFT_FAIL">>]
          [] k = "HARD_FAIL"    -> [state |-> "FAILED",    result |-> <<"MERLIN_HARD_FAIL">>]
          [] k = "STOP_WORKERS" -> [state |-> "CANCELLED", result |-> <<"MERLIN_STOP_WORKERS">>]
          [] k = "UNKNOWN"      -> [state |-> "INITIALIZED", result |-> <<"UNRECOGNIZED_RETURN_CODE">>]]

\* state_mapper: return code -> maestro state and result label.
state_mapper ==
    [k \in ReturnCodes \cup {"UNKNOWN"} |->
        CASE k = "OK"           -> [state |-> "FINISHED",  result |-> <<"MERLIN_SUCCESS">>]
          [] k = "DRY_OK"       -> [state |-> "DRYRUN",    result |-> <<"DRY_SUCCESS">>]
          [] k = "RETRY"        -> [state |-> "FINISHED",  result |-> <<"MERLIN_RETRY">>]
          [] k = "RESTART"      -> [state |-> "FINISHED",  result |-> <<"MERLIN_RESTART">>]
          [] k = "SOFT_FAIL"    -> [state |-> "FAILED",    result |-> <<"MERLIN_SOFT_FAIL">>]
          [] k = "HARD_FAIL"    -> [state |-> "FAILED",    result |-> <<"MERLIN_HARD_FAIL">>]
          [] k = "STOP_WORKERS" -> [state |-> "CANCELLED", result |-> <<"MERLIN_STOP_WORKERS">>]
          [] k = "UNKNOWN"      -> [state |-> "UNKNOWN",   result |-> <<"UNRECOGNIZED_RETURN_CODE">>]]

\* " (MAX RETRIES REACHED)": the blank starts new words.
MaxRetriesSuffix == <<"(MAX", "RETRIES", "REACHED)">>

state_translator ==
    [s \in States |-> IF s = "DRYRUN" THEN "DRY_RUN" ELSE s]

\* ------------------------------------------------------ _update_status_file
\* The result handed on as it came, with no placeholder put in its place.
result_or_placeholder_AsGiven(result) == result

\* if not result: result = "-------"
result_or_placeholder(result) == IF result = <<>> THEN <<"-------">> ELSE result

\* The list status_info, every item as the text str() gives it, for a record whose
\* state is st, start and end times are stt and et and restart counter is nr.
status_info(st, result, stt, et, nr) ==
    << <<name>>,
       <<state_translator[st]>>,
       result_or_placeholder(result),
       <<elapsed_time>>,
       <<run_time(stt, et)>>,
       <<Str(nr)>>,
       <<condensed_workspace>> >>
    \o (IF ~eager THEN << <<get_current_queue>>, <<get_current_worker>> >> ELSE <<>>)

\* status_line: the items joined by blanks (the newline is the line's end).
status_line(st, result, stt, et, nr) == Join(status_info(st, result, stt, et, nr))

\* Path.write_text: the file holds the new text and nothing else.
write_text(old, line) == <<line>>

\* What _update_status_file leaves in the file.
update_status_file(st, result, stt, et, nr) ==
    write_text(file, status_line(st, result, stt, et, nr))

\* ----------------------------------------------------------- bookkeeping
\* The record's fields and file, as an operation finds them.
Snapshot ==
    [status |-> status, num_restarts |-> num_restarts, restart_limit |-> restart_limit,
     start_time |-> start_time, end_time |-> end_time, file |-> file]

\* The entry an operation leaves in last.
Ran(op, rc, mr, wrote, raised) ==
    [op |-> op, rc |-> rc, mr |-> mr, wrote |-> wrote, raised |-> raised,
     pre |-> Snapshot]

\* ------------------------------------------------------------------ Init
\* MerlinStepRecord.__init__: status INITIALIZED; the base record starts with no
\* restarts and no times; restart_limit comes with the keyword arguments.
Init ==
    /\ status = "INITIALIZED"
    /\ num_restarts = 0
    /\ restart_limit \in 0..MaxLimit
    /\ start_time = 0
    /\ end_time = 0
    /\ now = 1
    /\ eager \in BOOLEAN
    /\ file = <<>>
    /\ nRestartCalls = 0
    /\ last = [op |-> "none", rc |-> "none", mr |-> FALSE, wrote |-> FALSE,
               raised |-> FALSE,
               pre |-> [status |-> "INITIALIZED", num_restarts |-> 0,
                        restart_limit |-> restart_limit, start_time |-> 0,
                        end_time |-> 0, file |-> <<>>]]
    /\ q = Idle /\ xp = Idle /\ ex = Idle /\ mon = Idle

\* --------------------------------------------------------------- actions
\* Time passes between two operations.
Tick ==
    /\ now < MaxTime
    /\ now' = now + 1
    /\ UNCHANGED <<status, num_restarts, restart_limit, start_time, end_time, eager,
                   file, last, nRestartCalls>>

\* MerlinStepRecord.setup_workspace
SetupWorkspace ==
    /\ file' = update_status_file(status, <<>>, start_time, end_time, num_restarts)
    /\ last' = Ran("setup_workspace", "none", FALSE, TRUE, FALSE)
    /\ UNCHANGED <<status, num_restarts, restart_limit, start_time, end_time, now,
                   eager, nRestartCalls>>

\* mark_running stamping the start time on every call.
MarkRunning_Restamps ==
    /\ status' = "RUNNING"
    /\ start_time' = now
    /\ file' = update_status_file("RUNNING", <<>>, start_time', end_time, num_restarts)
    /\ last' = Ran("mark_running", "none", FALSE, TRUE, FALSE)
    /\ UNCHANGED <<num_restarts, restart_limit, end_time, now, eager, nRestartCalls>>

\* MerlinStepRecord.mark_running
MarkRunning ==
    /\ status' = "RUNNING"
    /\ start_time' = StepRecord_start_time(start_time)
    /\ file' = update_status_file("RUNNING", <<>>, start_time', end_time, num_restarts)
    /\ last' = Ran("mark_running", "none", FALSE, TRUE, FALSE)
    /\ UNCHANGED <<num_restarts, restart_limit, end_time, now, eager, nRestartCalls>>

\* The key without the validity check.
mark_end_key_Unchecked(state) == state

\* if state not in state_mapper: state = "UNKNOWN"
mark_end_key(state) == IF state \notin DOMAIN state_mapper THEN "UNKNOWN" ELSE state

\* The suffix appended whenever max_retries is set, whatever the return code.
step_result_AnyCode(key, max_retries) ==
    IF max_retries
    THEN state_mapper[key].result \o MaxRetriesSuffix
    ELSE state_mapper[key].result

\* step_result, with the suffix mark_end appends to it.
step_result(key, max_retries) ==
    IF key = "SOFT_FAIL" /\ max_retries
    THEN state_mapper[key].result \o MaxRetriesSuffix
    ELSE state_mapper[key].result

\* mark_end doing nothing unless the record is RUNNING.
MarkEnd_OnlyWhenRunning(state, max_retries) ==
    LET key == mark_end_key(state)
    IN  IF status # "RUNNING"
        THEN /\ last' = Ran("mark_end", state, max_retries, FALSE, FALSE)
             /\ UNCHANGED <<status, num_restarts, restart_limit, start_time, end_time,
                            now, eager, file, nRestartCalls>>
        ELSE /\ status' = state_mapper[key].state
             /\ end_time' = StepRecord_end_time(end_time)
             /\ file' = update_status_file(status', step_result(key, max_retries),
                                           start_time, end_time', num_restarts)
             /\ last' = Ran("mark_end", state, max_retries, TRUE, FALSE)
             /\ UNCHANGED <<num_restarts, restart_limit, start_time, now, eager,
                            nRestartCalls>>

\* MerlinStepRecord.mark_end(state, max_retries): a look-up of a key the mapper
\* does not hold raises KeyError before anything is changed.
MarkEnd(state, max_retries) ==
    LET key == mark_end_key(state)
    IN  IF key \notin DOMAIN state_mapper
        THEN /\ last' = Ran("mark_end", state, max_retries, FALSE, TRUE)
             /\ UNCHANGED <<status, num_restarts, restart_limit, start_time, end_time,
                            now, eager, file, nRestartCalls>>
        ELSE /\ status' = state_mapper[key].state
             /\ end_time' = StepRecord_end_time(end_time)
             /\ file' = update_status_file(status', step_result(key, max_retries),
                                           start_time, end_time', num_restarts)
             /\ last' = Ran("mark_end", state, max_retries, TRUE, FALSE)
             /\ UNCHANGED <<num_restarts, restart_limit, start_time, now, eager,
                            nRestartCalls>>

\* The test without the unlimited case.
restart_allowed_NoUnlimited == num_restarts < restart_limit

\* The test off by one.
restart_allowed_OffByOne == restart_limit = 0 \/ num_restarts <= restart_limit

\* if self.restart_limit == 0 or self._num_restarts < self.restart_limit
restart_allowed == restart_limit = 0 \/ num_restarts < restart_limit

\* mark_restart writing the status file after the test, in both branches.
MarkRestart_AlwaysWrites ==
    /\ nRestartCalls < MaxRestartCalls
    /\ nRestartCalls' = nRestartCalls + 1
    /\ num_restarts' = IF restart_allowed THEN num_restarts + 1 ELSE num_restarts
    /\ file' = update_status_file(status, <<>>, start_time, end_time, num_restarts')
    /\ last' = Ran("mark_restart", "none", FALSE, TRUE, FALSE)
    /\ UNCHANGED <<status, restart_limit, start_time, end_time, now, eager>>

\* MerlinStepRecord.mark_restart: the status file is written in the branch that
\* increments the counter.
MarkRestart ==
    /\ nRestartCalls < MaxRestartCalls
    /\ nRestartCalls' = nRestartCalls + 1
    /\ IF restart_allowed
       THEN /\ num_restarts' = num_restarts + 1
            /\ file' = update_status_file(status, <<>>, start_time, end_time,
                                          num_restarts')
            /\ last' = Ran("mark_restart", "none", FALSE, TRUE, FALSE)
       ELSE /\ last' = Ran("mark_restart", "none", FALSE, FALSE, FALSE)
            /\ UNCHANGED <<num_restarts, file>>
    /\ UNCHANGED <<status, restart_limit, start_time, end_time, now, eager>>

\* Any interleaving of the record's operations, on their own.
Next ==
    \/ Tick /\ UNCHANGED auxVars
    \/ SetupWorkspace /\ UNCHANGED auxVars
    \/ MarkRunning /\ UNCHANGED auxVars
    \/ \E state \in ReturnCodes \cup OtherValues, max_retries \in BOOLEAN :
            MarkEnd(state, max_retries) /\ UNCHANGED auxVars
    \/ MarkRestart /\ UNCHANGED auxVars

Spec == Init /\ [][Next]_vars

\* The record left alone: as constructed, for a local run without restart limit.
RecIdle ==
    /\ status = "INITIALIZED"
    /\ num_restarts = 0
    /\ restart_limit = 0
    /\ start_time = 0
    /\ end_time = 0
    /\ now = 1
    /\ eager = TRUE
    /\ file = <<>>
    /\ nRestartCalls = 0
    /\ last = [op |-> "none", rc |-> "none", mr |-> FALSE, wrote |-> FALSE,
               raised |-> FALSE,
               pre |-> [status |-> "INITIALIZED", num_restarts |-> 0,
                        restart_limit |-> 0, start_time |-> 0,
                        end_time |-> 0, file |-> <<>>]]

\* =========================================================== queue names
\* Strings are sequences of symbols: a letter, or a run of characters that is
\* never taken apart.  str.lower() works symbol by symbol.
\* Longest task_queue override tried, in symbols.
MaxOverrideLen == 4

\* The letters of the overrides: those of the word none in both cases, and another.
QueueLetters == {"n", "N", "o", "O", "e", "E", "s"}

\* str.lower() of one symbol.
LowerSym(c) ==
    CASE c = "N" -> "n"
      [] c = "O" -> "o"
      [] c = "E" -> "e"
      [] c = "X" -> "x"
      [] c = "MERLIN_SAMPLE_ID" -> "merlin_sample_id"
      [] c = "Merlin_Sample_Id" -> "merlin_sample_id"
      [] OTHER -> c

\* str.lower() left out: the text as it is.
lower_AsIs(s) == s

\* str.lower()
lower(s) == [i \in 1..Len(s) |-> LowerSym(s[i])]

\* All strings of at most n symbols of S.
StringsUpTo(S, n) == UNION {[1..k -> S] : k \in 0..n}

\* CONFIG.celery.queue_tag: the default tag of merlin, and another.
QueueTags == {<<"[merlin]_">>, <<"q", "_">>}

\* step_dict["run"]: without the key task_queue, with the value None, or with a string.
TaskQueueEntries ==
    {[kind |-> "missing", s |-> <<>>], [kind |-> "None", s |-> <<>>]}
        \cup {[kind |-> "str", s |-> s] : s \in StringsUpTo(QueueLetters, MaxOverrideLen)}

\* with suppress(TypeError, KeyError)
Suppressed == {"TypeError", "KeyError"}

\* The override appended to the tag whether or not the tag is to be omitted.
get_task_queue_from_dict_AlwaysTagged(queue_tag, omit_tag, entry) ==
    LET queue == IF omit_tag THEN <<"merlin">> ELSE queue_tag
        raised == IF entry.kind = "missing" THEN "KeyError" ELSE "none"
        val == entry
    IN  IF raised # "none"
        THEN [queue |-> queue, err |-> IF raised \in Suppressed THEN "none" ELSE raised]
        ELSE IF ~(val.kind = "None" \/ lower(val.s) = <<"n", "o", "n", "e">> \/ val.s = <<>>)
             THEN [queue |-> queue_tag \o val.s, err |-> "none"]
             ELSE [queue |-> queue, err |-> "none"]

\* Step.get_task_queue_from_dict: the queue name, and the error that escapes (none).
\* The look-up of a missing key raises KeyError inside the suppress block.
get_task_queue_from_dict(queue_tag, omit_tag, entry) ==
    LET queue == IF omit_tag THEN <<"merlin">> ELSE queue_tag
        raised == IF entry.kind = "missing" THEN "KeyError" ELSE "none"
        val == entry
    IN  IF raised # "none"
        THEN [queue |-> queue, err |-> IF raised \in Suppressed THEN "none" ELSE raised]
        ELSE IF ~(val.kind = "None" \/ lower(val.s) = <<"n", "o", "n", "e">> \/ val.s = <<>>)
             THEN [queue |-> IF omit_tag THEN val.s ELSE queue_tag \o val.s,
                   err |-> "none"]
             ELSE [queue |-> queue, err |-> "none"]

\* A call about to be made, for any configuration and any step.
QInit ==
    /\ RecIdle
    /\ xp = Idle /\ ex = Idle /\ mon = Idle
    /\ q \in [pc : {"call"}, queue_tag : QueueTags, omit_tag : BOOLEAN,
              entry : TaskQueueEntries, queue : {<<>>}, err : {"none"}]

\* The call returns.
GetTaskQueue ==
    /\ q.pc = "call"
    /\ LET r == get_task_queue_from_dict(q.queue_tag, q.omit_tag, q.entry)
       IN  q' = [q EXCEPT !.pc = "done", !.queue = r.queue, !.err = r.err]
    /\ UNCHANGED <<recVars, xp, ex, mon>>

QNext == GetTaskQueue

SpecQueue == QInit /\ [][QNext]_vars

\* ============================================================== expansion
\* Longest command and restart command tried, in symbols.
MaxCmdLen == 3

\* The symbols of the commands: the two ends of a placeholder, a label in both
\* letter cases, and one of the reserved sample identifiers.
CmdSymbols == {"$(", ")", "X", "x", "MERLIN_SAMPLE_ID"}

\* The commands of a step.
Cmds == StringsUpTo(CmdSymbols, MaxCmdLen)

\* The restart commands of a step: None, or a string (the empty one included).
RestartCmds == {[kind |-> "None", s |-> <<>>]} \cup {[kind |-> "str", s |-> s] : s \in Cmds}

\* The lists of sample column labels handed to needs_merlin_expansion.
LabelLists == {<<>>, << <<"X">> >>}

\* The four identifiers needs_merlin_expansion adds to the labels.
ReservedLabels ==
    << <<"MERLIN_SAMPLE_ID">>, <<"MERLIN_SAMPLE_PATH">>,
       <<"merlin_sample_id">>, <<"merlin_sample_path">> >>

\* f"$({label})"
placeholder(label) == <<"$(">> \o label \o <<")">>

\* pat in text, for two strings.
Contains(text, pat) ==
    \E i \in 1..(Len(text) - Len(pat) + 1) : SubSeq(text, i, i + Len(pat) - 1) = pat

\* The restart command never looked at.
needs_merlin_expansion_CmdOnly(cmd, restart_cmd, labels) ==
    LET all == labels \o ReservedLabels
    IN  \E i \in 1..Len(all) : Contains(cmd, placeholder(all[i]))

\* needs_merlin_expansion: the first loop over the command, the second over the
\* restart command when the first found nothing and the restart command is truthy.
needs_merlin_expansion(cmd, restart_cmd, labels) ==
    LET all == labels \o ReservedLabels
        in_cmd == \E i \in 1..Len(all) : Contains(cmd, placeholder(all[i]))
    IN  IF ~in_cmd /\ restart_cmd.kind = "str" /\ restart_cmd.s # <<>>
        THEN \E i \in 1..Len(all) : Contains(restart_cmd.s, placeholder(all[i]))
        ELSE in_cmd

\* A call about to be made, for any two commands and any list of labels.
NInit ==
    /\ RecIdle
    /\ q = Idle /\ ex = Idle /\ mon = Idle
    /\ xp \in [pc : {"call"}, cmd : Cmds, restart_cmd : RestartCmds,
               labels : LabelLists, out : {FALSE}]

\* The call returns.
NeedsExpansion ==
    /\ xp.pc = "call"
    /\ xp' = [xp EXCEPT !.pc = "done",
                        !.out = needs_merlin_expansion(xp.cmd, xp.restart_cmd, xp.labels)]
    /\ UNCHANGED <<recVars, q, ex, mon>>

NNext == NeedsExpansion

SpecNeeds == NInit /\ [][NNext]_vars

\* ================================================================== clones
\* Most pieces in a template's command, and in its restart command.
MaxPieces == 2

\* Most instances one expansion makes (the common length of the value sequences).
MaxN == 2

\* What a template's command is made of: the placeholder of the column X, the same
\* in small letters, the placeholder of the sample identifier, and other text.
CmdPieces ==
    {placeholder(<<"X">>), placeholder(<<"x">>), placeholder(<<"MERLIN_SAMPLE_ID">>),
     <<"echo">>}

\* What a template's restart command is made of.
RestartPieces == {placeholder(<<"X">>), placeholder(<<"MERLIN_SAMPLE_ID">>)}

\* The text of a sequence of pieces, one after the other.
RECURSIVE Flat(_)
Flat(pieces) == IF pieces = <<>> THEN <<>> ELSE Head(pieces) \o Flat(Tail(pieces))

\* The value of self.mstep.step.__dict__["run"]["restart"] of given pieces.
RestartOf(r) == IF r.kind = "None" THEN r ELSE [kind |-> "str", s |-> Flat(r.p)]

\* The values of a sample column, as text: numbers.
Values == {<<"1">>, <<"2">>}

\* The parameter sets with n values each: the column X alone, or X and the sample
\* identifier, which counts the instances from 0.
ParameterSets(n) ==
    LET X(v) == [label |-> <<"X">>, values |-> v]
        id == [label |-> <<"MERLIN_SAMPLE_ID">>, values |-> [i \in 1..n |-> <<Str(i - 1)>>]]
    IN  {<<X(v)>> : v \in [1..n -> Values]} \cup {<<X(v), id>> : v \in [1..n -> Values]}

\* re.sub(re.escape(str1), str2, text, flags=re.I) for a non-empty str1 and a str2
\* without backslashes: every occurrence of str1 from the left, whatever the case
\* of its letters, gives way to str2.
RECURSIVE re_sub(_, _, _)
re_sub(str1, str2, text) ==
    IF Len(text) < Len(str1) THEN text
    ELSE IF lower(SubSeq(text, 1, Len(str1))) = lower(str1)
         THEN str2 \o re_sub(str1, str2, SubSeq(text, Len(str1) + 1, Len(text)))
         ELSE <<Head(text)>> \o re_sub(str1, str2, Tail(text))

\* The loop over cmd_replacement_pairs on one text.
RECURSIVE replace_pairs(_, _)
replace_pairs(pairs, text) ==
    IF pairs = <<>> THEN text
    ELSE replace_pairs(Tail(pairs), re_sub(Head(pairs)[1], Head(pairs)[2], text))

\* No argument given (None).
None == [kind |-> "None"]

\* The restart command left as the template has it.
clone_changing_workspace_and_cmd_CmdOnly(self, new_cmd, cmd_replacement_pairs, new_workspace) ==
    LET cmd == IF new_cmd # None THEN new_cmd.s ELSE self.cmd
        pairs == IF cmd_replacement_pairs # None THEN cmd_replacement_pairs.l ELSE <<>>
    IN  [cmd |-> replace_pairs(pairs, cmd),
         restart |-> self.restart,
         workspace |-> IF new_workspace = None THEN self.workspace ELSE new_workspace.s]

\* Step.clone_changing_workspace_and_cmd: the command, the restart command and the
\* workspace of the new step.
clone_changing_workspace_and_cmd(self, new_cmd, cmd_replacement_pairs, new_workspace) ==
    LET cmd == IF new_cmd # None THEN new_cmd.s ELSE self.cmd
        pairs == IF cmd_replacement_pairs # None THEN cmd_replacement_pairs.l ELSE <<>>
    IN  [cmd |-> replace_pairs(pairs, cmd),
         restart |-> IF self.restart.kind = "str" /\ self.restart.s # <<>>
                     THEN [kind |-> "str", s |-> replace_pairs(pairs, self.restart.s)]
                     ELSE self.restart,
         workspace |-> IF new_workspace = None THEN self.workspace ELSE new_workspace.s]

\* The step of given pieces as it is loaded; run names its run dictionary, the
\* object.
StepOf(cmd, restart) ==
    [cmd |-> Flat(cmd), restart |-> RestartOf(restart), workspace |-> workspace,
     run |-> 0]

\* A copy that is the very object it was made of.
deepcopy_SameObject(run, fresh) == run

\* deepcopy(self.mstep.step.__dict__): the run dictionary of the copy is an object
\* of its own.
deepcopy(run, fresh) == fresh

\* The steps there are once self.clone_changing_workspace_and_cmd(...) has run for
\* the template (source 0) or an instance: what the call stores in step_dict shows
\* in every step whose run dictionary is that object, and the new step is the last
\* of the instances.
CloneInto(steps, source, new_cmd, cmd_replacement_pairs, new_workspace) ==
    LET self == IF source = 0 THEN steps.template ELSE steps.instances[source]
        run == deepcopy(self.run, Len(steps.instances) + 1)
        made == clone_changing_workspace_and_cmd(
                    self, new_cmd, cmd_replacement_pairs, new_workspace)
        stored(step) ==
            IF step.run = run
            THEN [step EXCEPT !.cmd = made.cmd, !.restart = made.restart]
            ELSE step
    IN  [template |-> stored(steps.template),
         instances |->
            Append([k \in 1..Len(steps.instances) |-> stored(steps.instances[k])],
                   [cmd |-> made.cmd, restart |-> made.restart,
                    workspace |-> made.workspace, run |-> run])]

\* The pairs of instance i: each parameter's placeholder and its i-th value.
PairsOf(params, i) ==
    [l |-> [k \in 1..Len(params) |-> <<placeholder(params[k].label), params[k].values[i]>>]]

\* The clones of the template for the indices i to n, one after the other.
RECURSIVE ExpandFrom(_, _, _, _)
ExpandFrom(steps, i, n, params) ==
    IF i > n THEN steps
    ELSE ExpandFrom(CloneInto(steps, 0, None, PairsOf(params, i),
                              [s |-> workspace \o <<Str(i - 1)>>]),
                    i + 1, n, params)

\* A template and a parameter set, nothing made of them yet.
CInit ==
    /\ RecIdle
    /\ q = Idle /\ ex = Idle /\ mon = Idle
    /\ \E n \in 1..MaxN :
        \E cmd \in StringsUpTo(CmdPieces, MaxPieces) \ {<<>>},
           restart \in {None} \cup [kind : {"str"}, p : StringsUpTo(RestartPieces, MaxPieces)],
           params \in ParameterSets(n) :
            xp = [pc |-> "template", cmd |-> cmd, restart |-> restart,
                  n |-> n, params |-> params,
                  template |-> StepOf(cmd, restart), instances |-> <<>>,
                  source |-> 0, before |-> StepOf(cmd, restart)]

\* The expansion: one clone of the template per index, each with the pairs of its
\* index and a workspace of its own under the template's.
Expand ==
    /\ xp.pc = "template"
    /\ LET steps == ExpandFrom([template |-> xp.template, instances |-> <<>>],
                               1, xp.n, xp.params)
       IN  xp' = [xp EXCEPT !.pc = "expanded", !.template = steps.template,
                            !.instances = steps.instances]
    /\ UNCHANGED <<recVars, q, ex, mon>>

\* One more clone, of the template (source 0) or of an instance, with or without a
\* new command and a new workspace.
Clone(source, new_cmd, new_workspace) ==
    /\ xp.pc \in {"template", "expanded"}
    /\ source \in 0..Len(xp.instances)
    /\ LET steps == CloneInto([template |-> xp.template, instances |-> xp.instances],
                              source, new_cmd, None, new_workspace)
       IN  xp' = [xp EXCEPT
                    !.pc = "cloned",
                    !.source = source,
                    !.before = IF source = 0 THEN xp.template ELSE xp.instances[source],
                    !.template = steps.template,
                    !.instances = steps.instances]
    /\ UNCHANGED <<recVars, q, ex, mon>>

\* The owner of the newest clone gives it another command: an assignment to the
\* clone's run dictionary, seen by every step whose run dictionary is that object.
ChangeClone(cmd) ==
    /\ xp.pc = "cloned"
    /\ LET run == xp.instances[Len(xp.instances)].run
           stored(step) == IF step.run = run THEN [step EXCEPT !.cmd = cmd] ELSE step
       IN  xp' = [xp EXCEPT
                    !.pc = "changed",
                    !.template = stored(@),
                    !.instances = [k \in 1..Len(@) |-> stored(@[k])]]
    /\ UNCHANGED <<recVars, q, ex, mon>>

CNext ==
    \/ Expand
    \/ \E source \in 0..MaxN,
          new_cmd \in {None, [s |-> <<"echo">>]},
          new_workspace \in {None, [s |-> workspace \o <<"clone">>]} :
            Clone(source, new_cmd, new_workspace)
    \/ ChangeClone(<<"changed">>)

SpecClone == CInit /\ [][CNext]_vars

\* ================================================================ execute
\* Most calls of Step.execute that share one adapter configuration.
MaxCalls == 2

\* A key that a dictionary does not have (what .get returns for it is None).
Unset == "unset"

\* adapter_config as the caller first hands it over: the batch section's shell and
\* batch_type, either of which may be missing, its type, and dry_run.
AdapterConfigs ==
    [shell : {Unset, "/bin/bash"}, batch_type : {Unset, "slurm"}, type : {"local"},
     dry_run : BOOLEAN]

\* step.run["shell"]: missing, or the step's own shell.
RunShells == {Unset, "/bin/csh"}

\* step.run["batch"]: missing, an empty dictionary, one without the key type, one
\* with it.
RunBatches ==
    {[kind |-> "None", type |-> Unset], [kind |-> "empty", type |-> Unset],
     [kind |-> "dict", type |-> Unset], [kind |-> "dict", type |-> "flux"]}

\* step.run["restart"]: None, the empty string, a command.
RunRestarts == {"None", "", "restart cmd"}

\* Lines 443-444: the shell the adapter is made with.
merged_shell(adapter_config, run_shell) ==
    IF run_shell # Unset THEN run_shell ELSE adapter_config.shell

\* Line 447: adapter_config.get("batch_type", adapter_config["type"])
default_batch_type(adapter_config) ==
    IF adapter_config.batch_type # Unset THEN adapter_config.batch_type
    ELSE adapter_config.type

\* Lines 449-454: the batch type the adapter is made with.
merged_batch_type(adapter_config, batch) ==
    IF batch.kind = "dict"
    THEN IF batch.type # Unset THEN batch.type ELSE default_batch_type(adapter_config)
    ELSE default_batch_type(adapter_config)

\* The overrides left in adapter_config.
restored_config_Leaks(adapter_config, run_shell, batch) ==
    [adapter_config EXCEPT !.shell = merged_shell(adapter_config, run_shell),
                           !.batch_type = merged_batch_type(adapter_config, batch)]

\* Lines 460-463: adapter_config once the defaults are put back.
restored_config(adapter_config, run_shell, batch) ==
    [adapter_config EXCEPT !.shell = adapter_config.shell,
                           !.batch_type = default_batch_type(adapter_config)]

\* The restart command whenever the flag is set.
submitted_script_FlagOnly(restart, restart_cmd) == IF restart THEN "restart" ELSE "cmd"

\* Lines 485-488: which of the two scripts goes to the adapter.
submitted_script(restart, restart_cmd) ==
    IF restart /\ restart_cmd \notin {"None", ""} THEN "restart" ELSE "cmd"

\* A dry run that goes on to submit.
is_dry_run_Never(adapter_config) == FALSE

\* Line 474: adapter_config["dry_run"] is True
is_dry_run(adapter_config) == adapter_config.dry_run = TRUE

\* An adapter configuration, and no call of execute yet.
EInit ==
    /\ RecIdle
    /\ q = Idle /\ xp = Idle /\ mon = Idle
    /\ \E base \in AdapterConfigs :
        ex = [pc |-> "ready", base |-> base, adapter_config |-> base,
              run_shell |-> Unset, batch |-> [kind |-> "None", type |-> Unset],
              restart |-> FALSE, restart_cmd |-> "None",
              adapter |-> [shell |-> Unset, batch_type |-> Unset],
              log |-> <<>>, rc |-> "none", calls |-> 0, earlier_overrides |-> FALSE]

\* The record of a step that has not been executed: MerlinStepRecord.__init__.
NewRecord ==
    /\ status' = "INITIALIZED"
    /\ num_restarts' = 0
    /\ start_time' = 0
    /\ end_time' = 0
    /\ file' = <<>>
    /\ nRestartCalls' = 0
    /\ last' = [op |-> "none", rc |-> "none", mr |-> FALSE, wrote |-> FALSE,
                raised |-> FALSE,
                pre |-> [status |-> "INITIALIZED", num_restarts |-> 0,
                         restart_limit |-> 0, start_time |-> 0,
                         end_time |-> 0, file |-> <<>>]]
    /\ UNCHANGED <<restart_limit, now, eager>>

\* Step.execute of one more step, lines 443-463: the adapter is made with the
\* step's overrides and adapter_config gets its defaults back.
ExecConfigure(run_shell, batch, restart, restart_cmd) ==
    /\ ex.pc \in {"ready", "returned"}
    /\ ex.calls < MaxCalls
    /\ ex' = [ex EXCEPT
                !.pc = "configured",
                !.run_shell = run_shell, !.batch = batch,
                !.restart = restart, !.restart_cmd = restart_cmd,
                !.adapter = [shell |-> merged_shell(ex.adapter_config, run_shell),
                             batch_type |-> merged_batch_type(ex.adapter_config, batch)],
                !.adapter_config = restored_config(ex.adapter_config, run_shell, batch),
                !.log = <<>>, !.rc = "none", !.calls = @ + 1,
                !.earlier_overrides =
                    ex.calls > 0 /\ (ex.earlier_overrides \/ ex.run_shell # Unset
                                        \/ ex.batch.type # Unset)]
    /\ NewRecord

\* Line 465: self.mstep.setup_workspace()
ExecSetupWorkspace ==
    /\ ex.pc = "configured"
    /\ ex' = [ex EXCEPT !.pc = "workspace", !.log = Append(@, "setup_workspace")]
    /\ SetupWorkspace

\* Line 466: self.mstep.generate_script(adapter)
ExecGenerateScript ==
    /\ ex.pc = "workspace"
    /\ ex' = [ex EXCEPT !.pc = "scripted", !.log = Append(@, "generate_script")]
    /\ UNCHANGED recVars

\* Lines 474-475: the dry run returns.
ExecDryRun ==
    /\ ex.pc = "scripted"
    /\ is_dry_run(ex.adapter_config)
    /\ ex' = [ex EXCEPT !.pc = "returned", !.rc = "DRY_OK"]
    /\ UNCHANGED recVars

\* A submission without the record marked.
ExecMarkRunning_Skipped ==
    /\ ex.pc = "scripted"
    /\ ~is_dry_run(ex.adapter_config)
    /\ ex' = [ex EXCEPT !.pc = "running"]
    /\ UNCHANGED recVars

\* Lines 485-488 as far as MerlinStepRecord._execute's self.mark_running().
ExecMarkRunning ==
    /\ ex.pc = "scripted"
    /\ ~is_dry_run(ex.adapter_config)
    /\ ex' = [ex EXCEPT !.pc = "running", !.log = Append(@, "mark_running")]
    /\ MarkRunning

\* MerlinStepRecord._execute's adapter.submit(...) and the return of its code.
ExecSubmit(retcode) ==
    /\ ex.pc = "running"
    /\ ex' = [ex EXCEPT
                !.pc = "returned", !.rc = retcode,
                !.log = Append(@, "submit " \o submitted_script(ex.restart, ex.restart_cmd))]
    /\ UNCHANGED recVars

ENext ==
    \/ \E run_shell \in RunShells, batch \in RunBatches, restart \in BOOLEAN,
          restart_cmd \in RunRestarts :
            ExecConfigure(run_shell, batch, restart, restart_cmd)
                /\ UNCHANGED <<q, xp, mon>>
    \/ ExecSetupWorkspace /\ UNCHANGED <<q, xp, mon>>
    \/ ExecGenerateScript /\ UNCHANGED <<q, xp, mon>>
    \/ ExecDryRun /\ UNCHANGED <<q, xp, mon>>
    \/ ExecMarkRunning /\ UNCHANGED <<q, xp, mon>>
    \/ \E retcode \in ReturnCodes : ExecSubmit(retcode) /\ UNCHANGED <<q, xp, mon>>

SpecExec == EInit /\ [][ENext]_vars

\* ================================================================ monitor
\* Most calls of check_merlin_status one run of the monitor is followed for.
MaxChecks == 2

\* Most queues a query reports, and most pending tasks of one queue.
MaxQueues == 2
MaxJobs == 2

\* The attempt budget of the wait for workers.
max_count == 10

\* What query_queues reports: for each target queue its pending tasks and its
\* consumers.
QueueStatuses == StringsUpTo([jobs : 0..MaxJobs, consumers : 0..1], MaxQueues)

\* spec.get_worker_names(): the names of the workers the spec expects.
WorkerNames == {{}, {<<"a">>}, {<<"a">>, <<"b">>}}

\* The identities get_workers may list: worker_name@host.
WorkerIdentities == {<<"celery@", "a", ".host">>, <<"celery@", "c", ".host">>}

\* The first queue taken for all of them.
total_FirstQueueOnly(queue_status, field) ==
    IF queue_status = <<>> THEN 0 ELSE Head(queue_status)[field]

\* The loop "for _, jobs, consumers in queue_status" for one of the two totals.
RECURSIVE total(_, _)
total(queue_status, field) ==
    IF queue_status = <<>> THEN 0
    ELSE Head(queue_status)[field] + total(Tail(queue_status), field)

\* any(any(iwn in iws for iws in worker_status) for iwn in worker_names)
check_workers(worker_names, worker_status) ==
    \E iwn \in worker_names : \E iws \in worker_status : Contains(iws, iwn)

\* The consumers counted as pending work.
reported_jobs_WithConsumers(total_jobs, total_consumers, count) ==
    IF total_jobs > 0 /\ total_consumers = 0 /\ count = max_count
    THEN 0 ELSE total_jobs + total_consumers

\* The pending tasks reported although no worker turned up.
reported_jobs_KeepsCount(total_jobs, total_consumers, count) == total_jobs

\* No pending tasks reported after any wait, workers found or not.
reported_jobs_ZeroAfterWait(total_jobs, total_consumers, count) ==
    IF total_jobs > 0 /\ total_consumers = 0 THEN 0 ELSE total_jobs

\* The value check_merlin_status returns: total_jobs, set to 0 when the wait for
\* workers used up its budget.
reported_jobs(total_jobs, total_consumers, count) ==
    IF total_jobs > 0 /\ total_consumers = 0 /\ count = max_count
    THEN 0 ELSE total_jobs

\* while router.check_merlin_status(args, spec): the truth of the returned number.
loop_condition(ret) == ret # 0

\* process_monitor is called.
MInit ==
    /\ RecIdle
    /\ q = Idle /\ xp = Idle /\ ex = Idle
    /\ \E worker_names \in WorkerNames :
        mon = [pc |-> "begin", worker_names |-> worker_names, queue_status |-> <<>>,
               total_jobs |-> 0, total_consumers |-> 0, count |-> 0,
               worker_status |-> {}, polls |-> 0, sleeps |-> 0, matched |-> FALSE,
               ret |-> 0, error_logged |-> FALSE, checks |-> 0, slept |-> FALSE]

\* process_monitor up to its first check: time.sleep(args.sleep).
MonitorBegin ==
    /\ mon.pc = "begin"
    /\ mon' = [mon EXCEPT !.pc = "check", !.slept = TRUE]

\* check_merlin_status is called and sums up what query_queues reports; it returns
\* at once unless there are tasks and no consumers.
CheckQuery(queue_status) ==
    /\ mon.pc = "check"
    /\ mon.checks < MaxChecks
    /\ LET total_jobs == total(queue_status, "jobs")
           total_consumers == total(queue_status, "consumers")
           waits == total_jobs > 0 /\ total_consumers = 0
       IN  mon' = [mon EXCEPT
                    !.pc = IF waits THEN "polling" ELSE "returned",
                    !.queue_status = queue_status,
                    !.total_jobs = total_jobs, !.total_consumers = total_consumers,
                    !.count = 0, !.worker_status = {}, !.polls = 0, !.sleeps = 0,
                    !.matched = FALSE, !.error_logged = FALSE,
                    !.ret = IF waits THEN 0 ELSE reported_jobs(total_jobs, total_consumers, 0),
                    !.checks = @ + 1, !.slept = FALSE]

\* A wait that sleeps and polls again without counting the poll.
CheckPoll_NeverCounts(worker_status) ==
    /\ mon.pc = "polling"
    /\ mon.count < max_count
    /\ IF check_workers(mon.worker_names, worker_status)
       THEN mon' = [mon EXCEPT !.worker_status = worker_status, !.polls = @ + 1,
                               !.matched = TRUE, !.pc = "waited"]
       ELSE mon' = [mon EXCEPT !.worker_status = worker_status, !.polls = @ + 1,
                               !.sleeps = @ + 1]

\* One turn of "while count < max_count": the workers are listed; a match ends the
\* wait, anything else counts and sleeps.
CheckPoll(worker_status) ==
    /\ mon.pc = "polling"
    /\ mon.count < max_count
    /\ IF check_workers(mon.worker_names, worker_status)
       THEN mon' = [mon EXCEPT !.worker_status = worker_status, !.polls = @ + 1,
                               !.matched = TRUE, !.pc = "waited"]
       ELSE mon' = [mon EXCEPT !.worker_status = worker_status, !.polls = @ + 1,
                               !.count = @ + 1, !.sleeps = @ + 1,
                               !.pc = IF mon.count + 1 < max_count THEN "polling"
                                      ELSE "waited"]

\* The wait is over: "if count == max_count", with its LOG.error, and the return.
CheckReturn ==
    /\ mon.pc = "waited"
    /\ mon' = [mon EXCEPT
                !.pc = "returned",
                !.error_logged = mon.count = max_count,
                !.ret = reported_jobs(mon.total_jobs, mon.total_consumers, mon.count)]

\* A loop that checks again at once.
MonitorContinue_NoSleep ==
    /\ mon.pc = "returned"
    /\ loop_condition(mon.ret)
    /\ mon' = [mon EXCEPT !.pc = "check"]

\* The body of process_monitor's loop: the check reported work, the monitor sleeps.
MonitorContinue ==
    /\ mon.pc = "returned"
    /\ loop_condition(mon.ret)
    /\ mon' = [mon EXCEPT !.pc = "check", !.slept = TRUE]

\* The loop of process_monitor ends.
MonitorStop ==
    /\ mon.pc = "returned"
    /\ ~loop_condition(mon.ret)
    /\ mon' = [mon EXCEPT !.pc = "stopped"]

MNext ==
    \/ MonitorBegin /\ UNCHANGED <<recVars, q, xp, ex>>
    \/ \E queue_status \in QueueStatuses : CheckQuery(queue_status) /\ UNCHANGED <<recVars, q, xp, ex>>
    \/ \E worker_status \in SUBSET WorkerIdentities :
            CheckPoll(worker_status) /\ UNCHANGED <<recVars, q, xp, ex>>
    \/ CheckReturn /\ UNCHANGED <<recVars, q, xp, ex>>
    \/ MonitorContinue /\ UNCHANGED <<recVars, q, xp, ex>>
    \/ MonitorStop /\ UNCHANGED <<recVars, q, xp, ex>>

SpecMonitor == MInit /\ [][MNext]_vars

\* A poll of the wait for workers, whatever is listed.
PollStep ==
    \E worker_status \in SUBSET WorkerIdentities :
        CheckPoll(worker_status) /\ UNCHANGED <<recVars, q, xp, ex>>

\* The monitor with its wait for workers running on: get_workers and time.sleep
\* return, so a poll that can be made is made, and the call returns once the loop
\* is left.
SpecMonitorLive ==
    /\ MInit /\ [][MNext]_vars
    /\ WF_vars(PollStep)
    /\ WF_vars(CheckReturn /\ UNCHANGED <<recVars, q, xp, ex>>)

\* ----------------------------------------------------- reading the file
\* The fields of a status line: the line split on whitespace, in the order
\* name state result elapsed_time run_time restart_count condensed_workspace.
state_field(line) == line[2]

result_field(line) == line[3]

elapsed_field(line) == line[4]

restart_count_field(line) == line[6]

\* The last operation was op and ran to its end.
Did(op) == last.op = op /\ ~last.raised

\* ================================================================ claims
\* The return-code table of the design: lifecycle state and result label.
C1_Table ==
    [rc \in ReturnCodes |->
        CASE rc = "OK"           -> <<"FINISHED",  "MERLIN_SUCCESS">>
          [] rc = "DRY_OK"       -> <<"DRYRUN",    "DRY_SUCCESS">>
          [] rc = "RETRY"        -> <<"FINISHED",  "MERLIN_RETRY">>
          [] rc = "RESTART"      -> <<"FINISHED",  "MERLIN_RESTART">>
          [] rc = "SOFT_FAIL"    -> <<"FAILED",    "MERLIN_SOFT_FAIL">>
          [] rc = "HARD_FAIL"    -> <<"FAILED",    "MERLIN_HARD_FAIL">>
          [] rc = "STOP_WORKERS" -> <<"CANCELLED", "MERLIN_STOP_WORKERS">>]

\* C1: after mark_end(rc) with max_retries false, for each of the seven return codes
\* and from any prior state, the call has not raised, the record's state is the one
\* the table gives and the result field of the (single) status line is the table's
\* label, followed directly by the elapsed-time field.
C1_MarkEndFollowsTable ==
    (last.op = "mark_end" /\ last.rc \in ReturnCodes /\ ~last.mr) =>
        /\ ~last.raised
        /\ status = C1_Table[last.rc][1]
        /\ Len(file) = 1
        /\ result_field(file[1]) = C1_Table[last.rc][2]
        /\ elapsed_field(file[1]) = elapsed_time

\* C1 witness: STOP_WORKERS marked on a record that had already FAILED.
C1_Witness ==
    /\ Did("mark_end") /\ last.rc = "STOP_WORKERS" /\ ~last.mr
    /\ last.pre.status = "FAILED"
    /\ status = "CANCELLED"
    /\ result_field(file[1]) = "MERLIN_STOP_WORKERS"

\* C2: mark_end with a value outside the seven return codes does not raise; the
\* state becomes UNKNOWN and the status file is written, with the UNKNOWN state
\* token and the result label UNRECOGNIZED_RETURN_CODE.
C2_UnrecognizedIsUnknown ==
    (last.op = "mark_end" /\ last.rc \notin ReturnCodes) =>
        /\ ~last.raised
        /\ last.wrote
        /\ status = "UNKNOWN"
        /\ Len(file) = 1
        /\ state_field(file[1]) = "UNKNOWN"
        /\ result_field(file[1]) = "UNRECOGNIZED_RETURN_CODE"
        /\ elapsed_field(file[1]) = elapsed_time

\* C2 witness: a value of the enumeration that the table does not name.
C2_Witness ==
    /\ Did("mark_end") /\ last.rc = "ERROR"
    /\ last.pre.status = "RUNNING"
    /\ status = "UNKNOWN"
    /\ result_field(file[1]) = "UNRECOGNIZED_RETURN_CODE"

\* C3: mark_end(SOFT_FAIL, True) writes the soft-failure label followed by the words
\* of the max-retries suffix; mark_end(SOFT_FAIL, False) writes the bare label; for
\* any other return code the state and the label written are those of the code alone,
\* whatever the flag.
C3_SuffixOnlyOnSoftFail ==
    last.op = "mark_end" =>
        /\ (last.rc = "SOFT_FAIL" /\ last.mr) =>
              /\ status = "FAILED"
              /\ SubSeq(file[1], 3, 6) =
                    <<"MERLIN_SOFT_FAIL", "(MAX", "RETRIES", "REACHED)">>
              /\ file[1][7] = elapsed_time
        /\ (last.rc = "SOFT_FAIL" /\ ~last.mr) =>
              /\ status = "FAILED"
              /\ result_field(file[1]) = "MERLIN_SOFT_FAIL"
              /\ elapsed_field(file[1]) = elapsed_time
        /\ (last.rc \in ReturnCodes \ {"SOFT_FAIL"}) =>
              /\ status = C1_Table[last.rc][1]
              /\ result_field(file[1]) = C1_Table[last.rc][2]
              /\ elapsed_field(file[1]) = elapsed_time
        /\ (last.rc \notin ReturnCodes) =>
              /\ status = "UNKNOWN"
              /\ result_field(file[1]) = "UNRECOGNIZED_RETURN_CODE"
              /\ elapsed_field(file[1]) = elapsed_time

\* C3 witness: the suffix has been written after a soft failure.
C3_Witness ==
    /\ Did("mark_end") /\ last.rc = "SOFT_FAIL" /\ last.mr
    /\ SubSeq(file[1], 3, 6) = <<"MERLIN_SOFT_FAIL", "(MAX", "RETRIES", "REACHED)">>

\* C4: one mark_restart call adds exactly one to the counter when restart_limit is 0
\* or the counter was below it, and nothing otherwise; it changes neither the state
\* nor the limit nor the start and end times; with restart_limit 0 the counter is
\* the number of calls made.
C4_RestartCountsOnce ==
    /\ last.op = "mark_restart" =>
          /\ ~last.raised
          /\ num_restarts =
                IF restart_limit = 0 \/ last.pre.num_restarts < restart_limit
                THEN last.pre.num_restarts + 1
                ELSE last.pre.num_restarts
          /\ status = last.pre.status
          /\ restart_limit = last.pre.restart_limit
          /\ start_time = last.pre.start_time
          /\ end_time = last.pre.end_time
    /\ restart_limit = 0 => num_restarts = nRestartCalls

\* C4 witness: a third call on an unlimited instance has counted.
C4_Witness ==
    /\ Did("mark_restart")
    /\ restart_limit = 0
    /\ last.pre.num_restarts = 2
    /\ num_restarts = 3

\* C5: with restart_limit L > 0 the counter stays within 0..L, no operation lowers
\* it, and after n mark_restart calls it is the smaller of n and L: L after exactly
\* L calls, and still L after any further call.
C5_CounterCappedAtLimit ==
    restart_limit > 0 =>
        /\ num_restarts \in 0..restart_limit
        /\ num_restarts >= last.pre.num_restarts
        /\ num_restarts =
              IF nRestartCalls < restart_limit THEN nRestartCalls ELSE restart_limit

\* C5 witness: a call beyond the limit has left the counter at the limit.
C5_Witness ==
    /\ Did("mark_restart")
    /\ restart_limit > 0
    /\ nRestartCalls > restart_limit
    /\ last.pre.num_restarts = restart_limit
    /\ num_restarts = restart_limit

\* C6 as stated: every mark_restart call rewrites the status file, also one refused
\* because the counter has reached restart_limit.
C6_RestartAlwaysWrites ==
    last.op = "mark_restart" => last.wrote

\* C6 as amended: mark_restart rewrites the status file exactly when it increments
\* the counter, and the line then carries the new count; a call refused because the
\* counter has reached restart_limit leaves the file as it was.
C6_RestartWritesIffCounted ==
    last.op = "mark_restart" =>
        /\ last.wrote <=> num_restarts = last.pre.num_restarts + 1
        /\ last.wrote =>
              /\ Len(file) = 1
              /\ restart_count_field(file[1]) = Str(num_restarts)
        /\ ~last.wrote =>
              /\ restart_limit > 0
              /\ num_restarts = restart_limit
              /\ file = last.pre.file

\* C6 witness: a refused call, after which the file is the one found.
C6_Witness ==
    /\ Did("mark_restart")
    /\ last.pre.num_restarts = restart_limit
    /\ restart_limit > 0
    /\ ~last.wrote
    /\ file = last.pre.file

\* C7: mark_running leaves the record RUNNING whatever its state was and rewrites
\* the status file with the RUNNING token on every call; the start time is set by
\* the first call (to a reading of the clock) and kept by every later one.
C7_RunningStampsOnce ==
    last.op = "mark_running" =>
        /\ ~last.raised
        /\ status = "RUNNING"
        /\ last.wrote
        /\ Len(file) = 1
        /\ state_field(file[1]) = "RUNNING"
        /\ last.pre.start_time # 0 => start_time = last.pre.start_time
        /\ last.pre.start_time = 0 => start_time \in 1..now

\* C7 witness: a second mark_running, later than the first and from a terminal
\* state, has kept the first start time.
C7_Witness ==
    /\ Did("mark_running")
    /\ last.pre.status \in TerminalStates
    /\ last.pre.start_time # 0
    /\ start_time = last.pre.start_time
    /\ start_time < now
    /\ status = "RUNNING"

\* C8: once any operation has run, the status file holds exactly one line, whose
\* state field is the token of the record's state and whose restart-count field is
\* the record's restart counter.
C8_FileReflectsRecord ==
    last.op # "none" =>
        /\ Len(file) = 1
        /\ state_field(file[1]) = state_translator[status]
        /\ restart_count_field(file[1]) = Str(num_restarts)

\* C9 as stated: an instance never returns to INITIALIZED, and one in a terminal
\* state changes state only by mark_running.
C9_TerminalLeftOnlyByRunning ==
    /\ last.pre.status # "INITIALIZED" => status # "INITIALIZED"
    /\ (last.pre.status \in TerminalStates /\ status # last.pre.status) =>
          (last.op = "mark_running" /\ status = "RUNNING")

\* C9 as amended: an instance never returns to INITIALIZED; setup_workspace and
\* mark_restart never change the state; mark_running makes it RUNNING and mark_end
\* makes it the terminal state of its return code, from any state, so an instance in
\* a terminal state changes state by mark_running or by another mark_end.
C9_StateChangesOnlyByRunningOrEnd ==
    /\ last.pre.status # "INITIALIZED" => status # "INITIALIZED"
    /\ status # last.pre.status => last.op \in {"mark_running", "mark_end"}
    /\ last.op \in {"setup_workspace", "mark_restart"} => status = last.pre.status
    /\ last.op = "mark_running" => status = "RUNNING"
    /\ last.op = "mark_end" => status \in TerminalStates

\* C9 witness: mark_end has moved a FINISHED record straight to FAILED.
C9_Witness ==
    /\ Did("mark_end")
    /\ last.pre.status = "FINISHED"
    /\ status = "FAILED"

\* C10: mark_end(OK) writes the success label whatever the state before it, a fresh
\* INITIALIZED record included, and on a RUNNING record (mark_running, then
\* mark_end(OK)) leaves a line whose state field is FINISHED and whose result field
\* is the success label.
C10_EndNeedsNoRunning ==
    (last.op = "mark_end" /\ last.rc = "OK") =>
        /\ ~last.raised
        /\ last.wrote
        /\ Len(file) = 1
        /\ result_field(file[1]) = "MERLIN_SUCCESS"
        /\ state_field(file[1]) = "FINISHED"

\* C10 witness: mark_end(OK) as the first operation on a fresh record.
C10_Witness ==
    /\ Did("mark_end") /\ last.rc = "OK"
    /\ last.pre.status = "INITIALIZED"
    /\ last.pre.file = <<>>
    /\ result_field(file[1]) = "MERLIN_SUCCESS"

\* C11: every status line written has exactly the seven fields of the layout when
\* the run is local (task_always_eager) and those seven followed by a queue and a
\* worker when it is distributed, whatever the return code and the max_retries flag.
C11_SevenOrNineFields ==
    file # <<>> =>
        /\ Len(file[1]) = IF eager THEN 7 ELSE 9
        /\ file[1][1] = name
        /\ state_field(file[1]) = state_translator[status]
        /\ elapsed_field(file[1]) = elapsed_time
        /\ restart_count_field(file[1]) = Str(num_restarts)
        /\ file[1][7] = condensed_workspace
        /\ ~eager => (file[1][8] = get_current_queue /\ file[1][9] = get_current_worker)

\* No mark_end has run on the record yet: the end time is marked by the first one.
EndNeverMarked == end_time = 0

\* C12: as long as no mark_end has run, the status line (written by setup_workspace,
\* mark_running or mark_restart) has the placeholder ------- as its result field, and
\* whenever one of these three operations has just written the line its result field
\* is the placeholder: any other result field was written by mark_end.
C12_PlaceholderUntilEnd ==
    file # <<>> =>
        /\ EndNeverMarked => result_field(file[1]) = "-------"
        /\ (last.wrote /\ last.op # "mark_end") => result_field(file[1]) = "-------"
        /\ (last.wrote /\ last.op = "mark_end") => result_field(file[1]) # "-------"

\* C12 witness: a restart counted on a running record that was never ended.
C12_Witness ==
    /\ Did("mark_restart") /\ last.wrote
    /\ EndNeverMarked
    /\ status = "RUNNING"
    /\ num_restarts > 0
    /\ result_field(file[1]) = "-------"

\* The word none in any letter case.
NoneSpellings ==
    {s \in [1..4 -> QueueLetters] :
        /\ s[1] \in {"n", "N"} /\ s[2] \in {"o", "O"}
        /\ s[3] \in {"n", "N"} /\ s[4] \in {"e", "E"}}

\* C13: the resolver follows the policy: without an override the queue is the
\* literal merlin when the tag is omitted and queue_tag otherwise; with a non-empty
\* override that is not the word none it is the override verbatim when the tag is
\* omitted and queue_tag followed by the override otherwise.
C13_QueuePolicy ==
    q.pc = "done" =>
        /\ q.entry.kind = "missing" =>
              q.queue = IF q.omit_tag THEN <<"merlin">> ELSE q.queue_tag
        /\ (q.entry.kind = "str" /\ q.entry.s # <<>> /\ q.entry.s \notin NoneSpellings) =>
              /\ q.err = "none"
              /\ q.queue = IF q.omit_tag THEN q.entry.s ELSE q.queue_tag \o q.entry.s

\* C13 witness: an override used verbatim because the tag is omitted.
C13_Witness ==
    /\ q.pc = "done"
    /\ q.omit_tag
    /\ q.entry.kind = "str" /\ q.entry.s = <<"s", "n", "o", "e">>
    /\ q.queue = <<"s", "n", "o", "e">>

\* C14: a missing key, None, the empty string and the word none in any letter case
\* all give the queue of a step without override, for both values of omit_queue_tag,
\* and no error escapes.
C14_NoOverrideForms ==
    (q.pc = "done" /\ (\/ q.entry.kind \in {"missing", "None"}
                       \/ q.entry.s = <<>>
                       \/ q.entry.s \in NoneSpellings)) =>
        /\ q.err = "none"
        /\ q.queue = IF q.omit_tag THEN <<"merlin">> ELSE q.queue_tag

\* C14 witness: the word none in mixed case, with the tag kept.
C14_Witness ==
    /\ q.pc = "done"
    /\ ~q.omit_tag
    /\ q.entry.kind = "str" /\ q.entry.s = <<"N", "o", "N", "e">>
    /\ q.queue = q.queue_tag

\* The labels a text is searched for: those supplied and the four reserved ones.
C15_Labels(labels) ==
    {labels[i] : i \in 1..Len(labels)}
        \cup {<<"MERLIN_SAMPLE_ID">>, <<"MERLIN_SAMPLE_PATH">>,
              <<"merlin_sample_id">>, <<"merlin_sample_path">>}

\* The text holds the token $(L) of label L.
C15_HasToken(text, L) ==
    \E i \in 1..Len(text) :
        /\ i + Len(L) + 1 <= Len(text)
        /\ text[i] = "$("
        /\ \A k \in 1..Len(L) : text[i + k] = L[k]
        /\ text[i + Len(L) + 1] = ")"

\* C15: needs_merlin_expansion is true exactly when the command, or the restart
\* command if there is one, holds the token $(L) of a supplied label or of a
\* reserved sample identifier.
C15_NeedsExpansionIffToken ==
    xp.pc = "done" =>
        (xp.out <=>
            \E L \in C15_Labels(xp.labels) :
                \/ C15_HasToken(xp.cmd, L)
                \/ xp.restart_cmd.kind = "str" /\ C15_HasToken(xp.restart_cmd.s, L))

\* C15 witness: a reserved identifier in the restart command alone.
C15_Witness ==
    /\ xp.pc = "done"
    /\ xp.cmd = <<"X">>
    /\ xp.labels = <<>>
    /\ xp.restart_cmd = [kind |-> "str", s |-> <<"$(", "MERLIN_SAMPLE_ID", ")">>]
    /\ xp.out

\* What instance i may hold in the place of a piece of the template: the i-th value
\* of the parameter whose placeholder the piece is; any other piece itself, or, if
\* it is a placeholder but for the case of its letters, the value as well.
C16_Image(piece, i) ==
    LET params == xp.params
        exact == {k \in 1..Len(params) : piece = <<"$(">> \o params[k].label \o <<")">>}
        alike == {k \in 1..Len(params) :
                    lower(piece) = lower(<<"$(">> \o params[k].label \o <<")">>)}
    IN  IF exact # {}
        THEN {params[k].values[i] : k \in exact}
        ELSE {piece} \cup {params[k].values[i] : k \in alike}

\* The text is the pieces of the template with every placeholder of a parameter
\* replaced by the parameter's i-th value, and holds no such placeholder.
C16_Substituted(text, pieces, i) ==
    /\ \E f \in [1..Len(pieces) -> UNION {C16_Image(pieces[j], i) : j \in 1..Len(pieces)}] :
            /\ \A j \in 1..Len(pieces) : f[j] \in C16_Image(pieces[j], i)
            /\ text = Flat(f)
    /\ \A k \in 1..Len(xp.params) : ~C15_HasToken(text, xp.params[k].label)

\* C16: a parameter set of N values each expands a template into exactly N
\* instances, and instance i has, in the command and in the restart command, the
\* i-th value of a parameter wherever the template has its placeholder, with no
\* placeholder of a parameter left.
C16_ExpansionSubstitutesAll ==
    xp.pc = "expanded" =>
        /\ Len(xp.instances) = xp.n
        /\ \A i \in 1..xp.n :
            /\ C16_Substituted(xp.instances[i].cmd, xp.cmd, i)
            /\ IF xp.restart.kind = "None"
               THEN xp.instances[i].restart.kind = "None"
               ELSE /\ xp.instances[i].restart.kind = "str"
                    /\ C16_Substituted(xp.instances[i].restart.s, xp.restart.p, i)

\* C16 witness: two values, a command and a restart command with two placeholders
\* each.
C16_Witness ==
    /\ xp.pc = "expanded"
    /\ xp.n = 2
    /\ Len(xp.params) = 2
    /\ xp.params[1].values = << <<"1">>, <<"2">> >>
    /\ xp.cmd = << <<"$(", "X", ")">>, <<"$(", "X", ")">> >>
    /\ xp.restart = [kind |-> "str", p |-> << <<"$(", "MERLIN_SAMPLE_ID", ")">>, <<"$(", "X", ")">> >>]
    /\ xp.instances[2].cmd = <<"2", "2">>
    /\ xp.instances[2].restart.s = <<"1", "2">>

\* C17: no two steps have the same workspace: a clone's differs from that of the
\* step it was made of and from every other instance's.
C17_WorkspacesDistinct ==
    xp.pc \in {"expanded", "cloned"} =>
        /\ \A i, j \in 1..Len(xp.instances) :
                i # j => xp.instances[i].workspace # xp.instances[j].workspace
        /\ \A i \in 1..Len(xp.instances) : xp.instances[i].workspace # workspace

\* The adapter's submit operation was invoked in the call of execute under way, or
\* the last one made.
Submitted == \E i \in 1..Len(ex.log) : ex.log[i] \in {"submit cmd", "submit restart"}

\* C18: with dry_run set, Step.execute never invokes the adapter's submit and
\* returns DRY_OK, the workspace set up (its status file written) and the script
\* generated before it returns.
C18_DryRunNeverSubmits ==
    (ex.pc # "idle" /\ ex.base.dry_run) =>
        /\ ~Submitted
        /\ ex.pc = "returned" =>
            /\ ex.rc = "DRY_OK"
            /\ ex.log = <<"setup_workspace", "generate_script">>
            /\ file # <<>>

\* C18 witness: a dry run returned for a step with its restart flag set and a
\* restart command.
C18_Witness ==
    /\ ex.pc = "returned"
    /\ ex.base.dry_run
    /\ ex.restart
    /\ ex.restart_cmd = "restart cmd"
    /\ ex.rc = "DRY_OK"

\* The batch type of the base configuration: its batch_type, or its type if it
\* has none.
BaseBatchType == IF ex.base.batch_type = "unset" THEN ex.base.type ELSE ex.base.batch_type

\* C19: once the adapter of a call is made, and so when execute returns, the shared
\* configuration holds the base shell and the base batch type, and a step without
\* overrides is given an adapter with the base shell and the base batch type,
\* whatever steps were executed before it.
C19_DefaultsRestored ==
    ex.pc \notin {"idle", "ready"} =>
        /\ ex.adapter_config.shell = ex.base.shell
        /\ ex.adapter_config.batch_type = BaseBatchType
        /\ (ex.run_shell = "unset" /\ ex.batch.type = "unset") =>
            /\ ex.adapter.shell = ex.base.shell
            /\ ex.adapter.batch_type = BaseBatchType

\* C19 witness: a step without overrides submitted after one with overrides.
C19_Witness ==
    /\ ex.pc = "returned"
    /\ ex.earlier_overrides
    /\ ex.run_shell = "unset" /\ ex.batch.type = "unset"
    /\ Submitted
    /\ ex.adapter = [shell |-> "/bin/bash", batch_type |-> "slurm"]

\* The queues of the last query hold no pending task.
NoPendingTasks == \A i \in 1..Len(mon.queue_status) : mon.queue_status[i].jobs = 0

\* C20: check_merlin_status returns 0 whenever no queue holds a pending task,
\* whatever the consumers, and process_monitor's loop ends exactly when a check
\* returned 0: it has stopped only after a 0, and goes on to another check only
\* after something else.
C20_StopsExactlyOnZero ==
    /\ (mon.pc = "returned" /\ NoPendingTasks) => mon.ret = 0
    /\ mon.pc = "stopped" => mon.ret = 0
    /\ (mon.pc = "check" /\ mon.checks > 0) => mon.ret # 0

\* C20 witness: the monitor stopped on queues without tasks but with a consumer.
C20_Witness ==
    /\ mon.pc = "stopped"
    /\ mon.checks = 2
    /\ mon.queue_status = <<[jobs |-> 0, consumers |-> 1], [jobs |-> 0, consumers |-> 0]>>
    /\ mon.ret = 0

\* One of the expected worker names is part of an identity of the listing.
ExpectedWorkerIn(listing) ==
    \E wname \in mon.worker_names : \E identity \in listing :
        \E i \in 1..Len(identity) : \E j \in i..Len(identity) :
            SubSeq(identity, i, j) = wname

\* The last query found pending tasks and no consumer.
TasksWithoutConsumers ==
    /\ \E i \in 1..Len(mon.queue_status) : mon.queue_status[i].jobs > 0
    /\ \A i \in 1..Len(mon.queue_status) : mon.queue_status[i].consumers = 0

\* C21: with pending tasks, no consumer and no expected worker in any listing of
\* the wait (every poll that did not end the wait listed none), check_merlin_status
\* returns 0 after the whole budget of polls, the anomaly logged.
C21_NoWorkersReportsZero ==
    /\ (mon.pc \in {"polling", "waited"} /\ ~mon.matched /\ mon.polls > 0)
            => ~ExpectedWorkerIn(mon.worker_status)
    /\ (mon.pc = "returned" /\ TasksWithoutConsumers /\ ~mon.matched)
            => /\ mon.ret = 0
               /\ mon.polls = 10
               /\ ~ExpectedWorkerIn(mon.worker_status)
               /\ mon.error_logged

\* C21 witness: two tasks, no consumer, a worker a expected and only c listed.
C21_Witness ==
    /\ mon.pc = "returned"
    /\ mon.queue_status = <<[jobs |-> 2, consumers |-> 0]>>
    /\ mon.worker_names = {<<"a">>}
    /\ mon.worker_status = {<<"celery@", "c", ".host">>}
    /\ mon.polls = 10
    /\ mon.ret = 0

\* The pending tasks of the last query, all queues together.
RECURSIVE PendingUpTo(_)
PendingUpTo(n) == IF n = 0 THEN 0 ELSE mon.queue_status[n].jobs + PendingUpTo(n - 1)

\* C22: with pending tasks and no consumer, a poll that lists an expected worker is
\* the last poll of the call, the tenth allowed one included, and the call reports
\* the pending tasks it counted, unchanged and without the anomaly.
C22_MatchStopsPolling ==
    /\ (mon.pc = "polling" /\ mon.polls > 0) => ~ExpectedWorkerIn(mon.worker_status)
    /\ (mon.pc \in {"waited", "returned"} /\ TasksWithoutConsumers
            /\ ExpectedWorkerIn(mon.worker_status))
            => /\ mon.polls <= 10
               /\ mon.sleeps = mon.polls - 1
               /\ mon.pc = "returned" =>
                    /\ mon.ret = PendingUpTo(Len(mon.queue_status))
                    /\ mon.ret > 0
                    /\ ~mon.error_logged

\* C22 witness: the expected worker turns up in the tenth poll.
C22_Witness ==
    /\ mon.pc = "returned"
    /\ mon.queue_status = <<[jobs |-> 1, consumers |-> 0], [jobs |-> 2, consumers |-> 0]>>
    /\ mon.worker_names = {<<"a">>, <<"b">>}
    /\ mon.worker_status = {<<"celery@", "a", ".host">>, <<"celery@", "c", ".host">>}
    /\ mon.polls = 10
    /\ mon.ret = 3

\* C25: the wait for workers of check_merlin_status ends: a call polls the workers
\* at most 10 times, has slept once after each poll that found no expected worker,
\* and a call that began to wait returns.
C25_WaitTerminates ==
    /\ [](/\ mon.polls <= 10
          /\ mon.sleeps = mon.polls - (IF ExpectedWorkerIn(mon.worker_status) THEN 1 ELSE 0))
    /\ (mon.pc = "polling") ~> (mon.pc = "returned")

\* C25 witness: a call returned after ten polls and ten sleeps.
C25_Witness ==
    /\ mon.pc = "returned"
    /\ mon.polls = 10
    /\ mon.sleeps = 10
    /\ mon.worker_names = {<<"a">>, <<"b">>}
    /\ mon.checks = 2

\* C26: process_monitor has slept since it was called, or since the last call of
\* check_merlin_status returned, whenever it is about to call check_merlin_status;
\* the call itself uses the sleep up.
C26_SleepsBeforeEachCheck ==
    /\ mon.pc = "check" => mon.slept
    /\ mon.pc \in {"polling", "waited", "returned", "stopped"} => ~mon.slept

\* C26 witness: about to check for the second time, after a sleep.
C26_Witness ==
    /\ mon.pc = "check"
    /\ mon.checks = 1
    /\ mon.ret = 2
    /\ mon.slept

\* C30: when some queue has a consumer, check_merlin_status never lists the workers
\* and returns the pending tasks of all queues together, whoever is expected.
C30_ConsumersSkipTheWait ==
    (mon.pc \notin {"idle", "begin"}
        /\ \E i \in 1..Len(mon.queue_status) : mon.queue_status[i].consumers > 0)
        => /\ mon.pc \notin {"polling", "waited"}
           /\ mon.pc \in {"returned", "stopped"} =>
                /\ mon.polls = 0
                /\ mon.ret = PendingUpTo(Len(mon.queue_status))

\* C30 witness: tasks in two queues, a consumer on the second only, workers
\* expected.
C30_Witness ==
    /\ mon.pc = "returned"
    /\ mon.queue_status = <<[jobs |-> 2, consumers |-> 0], [jobs |-> 1, consumers |-> 1]>>
    /\ mon.worker_names = {<<"a">>}
    /\ mon.ret = 3
    /\ mon.polls = 0

\* C23: no clone changes the step it is made of, nor does a change of the clone:
\* the template stays as it was loaded through expansion, clones and changes, and
\* an instance that was cloned is what it was before.
C23_OriginalUntouched ==
    /\ xp.pc # "idle" =>
            xp.template = [cmd |-> Flat(xp.cmd),
                           restart |-> IF xp.restart.kind = "None" THEN xp.restart
                                       ELSE [kind |-> "str", s |-> Flat(xp.restart.p)],
                           workspace |-> workspace, run |-> 0]
    /\ (xp.pc \in {"cloned", "changed"} /\ xp.source > 0) =>
            xp.instances[xp.source] = xp.before

\* C23 witness: a clone of the template with another command, then changed, and a
\* template with placeholders that expansion replaced.
C23_Witness ==
    /\ xp.pc = "changed"
    /\ xp.source = 0
    /\ Len(xp.instances) = 3
    /\ xp.instances[3].cmd = <<"changed">>
    /\ xp.instances[1].cmd = <<"1", "echo">>
    /\ xp.template.cmd = <<"$(", "X", ")", "echo">>

\* The labels of the parameters of the expansion, in their order.
ParameterLabels == [k \in 1..Len(xp.params) |-> xp.params[k].label]

\* C28: when needs_merlin_expansion finds nothing to expand in the template's
\* command and restart command for the labels of the parameters, the clones made
\* with the pairs of those labels have the template's two texts unchanged.
C28_DetectionAgreesWithSubstitution ==
    (xp.pc = "expanded"
        /\ ~needs_merlin_expansion(xp.template.cmd, xp.template.restart, ParameterLabels))
        => \A i \in 1..xp.n :
            /\ xp.instances[i].cmd = xp.template.cmd
            /\ xp.instances[i].restart = xp.template.restart

\* How often an event is in the log of the call.
TimesLogged(event) == Cardinality({i \in 1..Len(ex.log) : ex.log[i] = event})

\* C24: a call of Step.execute that is no dry run has, when it returns, submitted
\* exactly one script: the restart command if the restart flag is set and there is
\* a restart command that is not empty, the command otherwise.
C24_RestartSubmittedIffFlagAndCmd ==
    (ex.pc = "returned" /\ ~ex.base.dry_run) =>
        /\ TimesLogged("submit cmd") + TimesLogged("submit restart") = 1
        /\ TimesLogged("submit restart") = 1
                <=> (ex.restart /\ ex.restart_cmd = "restart cmd")

\* C24 witness: the flag set and the restart command empty, the command submitted.
C24_Witness ==
    /\ ex.pc = "returned"
    /\ ~ex.base.dry_run
    /\ ex.restart
    /\ ex.restart_cmd = ""
    /\ TimesLogged("submit cmd") = 1

\* C29: in a call that is no dry run the workspace is set up first, with a status
\* file that does not say RUNNING yet, the record is RUNNING, and the file says so,
\* once it is marked and before anything is submitted, and whatever is submitted
\* comes after both; in a dry run the record is never RUNNING.
C29_RunningWrittenBeforeSubmit ==
    /\ (ex.pc = "workspace" /\ ~ex.base.dry_run) =>
            /\ ex.log = <<"setup_workspace">>
            /\ Len(file) = 1 /\ state_field(file[1]) = "INITIALIZED"
    /\ (ex.pc = "running") =>
            /\ ex.log = <<"setup_workspace", "generate_script", "mark_running">>
            /\ status = "RUNNING"
            /\ Len(file) = 1 /\ state_field(file[1]) = "RUNNING"
    /\ (ex.pc # "idle" /\ Submitted) =>
            /\ SubSeq(ex.log, 1, 3) = <<"setup_workspace", "generate_script", "mark_running">>
            /\ Len(ex.log) = 4
            /\ status = "RUNNING"
            /\ state_field(file[1]) = "RUNNING"
    /\ (ex.pc \notin {"idle", "ready"} /\ ex.base.dry_run) =>
            /\ status # "RUNNING"
            /\ TimesLogged("mark_running") = 0

\* C29 witness: a restart command submitted for a record marked RUNNING.
C29_Witness ==
    /\ ex.pc = "returned"
    /\ ex.log = <<"setup_workspace", "generate_script", "mark_running", "submit restart">>
    /\ status = "RUNNING"
    /\ state_field(file[1]) = "RUNNING"
    /\ ex.calls = 2

\* The state field of the status file when the record's state is terminal.
TerminalStateFields == {"FINISHED", "FAILED", "CANCELLED", "DRY_RUN", "UNKNOWN"}

\* C27: a status file whose state field is a terminal state has a result label as
\* its result field, never the placeholder, whatever ran after mark_end.
C27_TerminalKeepsResult ==
    (file # <<>> /\ state_field(file[1]) \in TerminalStateFields)
        => result_field(file[1]) # "-------"

====
